---- MODULE Spec2Model ----
(***************************************************************************)
(* Model of static/js/main.js: the dashboard's polling scheduler           *)
(* (startRealTimeUpdates and the four update* refreshers), the live        *)
(* channel (initWebSocket, handleWebSocketMessage) and the notifications   *)
(* (showAlert).                                                            *)
(*                                                                         *)
(* Time is counted in seconds (1000 ms of the host's timers).  A timer is  *)
(* the time left until it is due; the host runs a due timer's callback at  *)
(* some later point, never before it is due.                               *)
(*                                                                         *)
(* Strings the code only copies are TLA+ strings.  A template literal is   *)
(* the tuple of its pieces.  A string the code inspects (the trade status  *)
(* token, lower-cased by getStatusClass) is a tuple of characters.         *)
(***************************************************************************)
EXTENDS Integers, Sequences, FiniteSets, TLC

VARIABLES
    dom,          \* what the page holds, fixed once served: see Doms
    loaded,       \* the DOMContentLoaded listener has run
    pageTimer,    \* the listener's one-shot timer (-1: not armed or done)
    intervals,    \* the setInterval timers of startRealTimeUpdates, the one
                  \* due first at the head
    pendTrade,    \* fetches in flight, per trade row, in the order they were
                  \* sent: TRUE for one that a later one has overtaken
    pendBalance,  \* fetches in flight, per balance element
    pendCopier,   \* fetches in flight for /api/copier_status
    pendApi,      \* fetches in flight for /api/connections_status
    badges,       \* per trade row: the .status-badge's textContent, className
    balances,     \* per balance element: its textContent
    copier,       \* #copier-status and #copier-description
    api,          \* #api-status and #api-description
    ws,           \* the live channel: Idle (initWebSocket not called yet), None
                  \* (no socket), Connecting, Open, Closed
    reconnects,   \* the pending setTimeout(initWebSocket) timers
    closedFor,    \* time since the channel's last close event
    alerts,       \* the alerts showAlert created, newest first
    last,         \* the handler of a response, a message or an error that ran
                  \* last, and how it ended
    statusArg,    \* getStatusClass taken alone: its argument
    statusClass   \* getStatusClass taken alone: its result ("none" before the call)

vars == <<dom, loaded, pageTimer, intervals, pendTrade, pendBalance, pendCopier,
          pendApi, badges, balances, copier, api, ws, reconnects, closedFor,
          alerts, last, statusArg, statusClass>>

pollVars == <<intervals, pendTrade, pendBalance, pendCopier, pendApi, badges,
              balances, copier, api>>

chanVars == <<ws, reconnects, closedFor, alerts>>

callVars == <<statusArg, statusClass>>

-----------------------------------------------------------------------------
(* Bounds of the model *)

\* calls of startRealTimeUpdates in one run
MaxStarts == 2
\* fetches in flight for one target
MaxInflight == 1
\* trade status fetches in flight for one row
MaxInflightTrade == 2
\* alerts created and not yet forgotten
MaxAlerts == 2
\* the step in which time advances
Quantum == 5

(* The program's delays, in seconds *)

PollPeriod == 10
ReconnectDelay == 5
AlertDelay == 5
PageAlertDelay == 5

-----------------------------------------------------------------------------
(* JavaScript values *)

\* a value of a parsed response: absent fields read as undefined
Undefined == [type |-> "undefined", val |-> <<>>]
Str(s) == [type |-> "string", val |-> s]
Num(s) == [type |-> "number", val |-> s]

\* if (v): the booleans of a response are "true", "false" or "undefined"
Truthy(b) == b = "true"

\* element.textContent = v: null and undefined give the empty text, anything
\* else its string form
TextContent(v, empty) == IF v.type = "undefined" THEN empty ELSE v.val

Min(a, b) == IF a < b THEN a ELSE b
Max(a, b) == IF a > b THEN a ELSE b

\* the letters of the status tokens, upper case to lower case
LowerOf ==
    [c \in {"E", "X", "C", "U", "T", "D", "P", "N", "I", "G", "F", "A", "L", "O"} |->
        CASE c = "E" -> "e" [] c = "X" -> "x" [] c = "C" -> "c" [] c = "U" -> "u"
          [] c = "T" -> "t" [] c = "D" -> "d" [] c = "P" -> "p" [] c = "N" -> "n"
          [] c = "I" -> "i" [] c = "G" -> "g" [] c = "F" -> "f" [] c = "A" -> "a"
          [] c = "L" -> "l" [] c = "O" -> "o"]

\* a comparison that takes the token as it is
toLowerCase_asis(s) == s

\* String.prototype.toLowerCase
toLowerCase(s) == [i \in DOMAIN s |-> IF s[i] \in DOMAIN LowerOf THEN LowerOf[s[i]] ELSE s[i]]

getStatusClass(status) ==
    LET lower == toLowerCase(status)
    IN CASE lower = <<"e", "x", "e", "c", "u", "t", "e", "d">> -> "success"
         [] lower = <<"p", "e", "n", "d", "i", "n", "g">> -> "warning"
         [] lower = <<"f", "a", "i", "l", "e", "d">> -> "danger"
         [] lower = <<"c", "a", "n", "c", "e", "l", "l", "e", "d">> -> "secondary"
         [] OTHER -> "secondary"

-----------------------------------------------------------------------------
(* The pages *)

\* A page: its pathname, its .trade-row elements (data-trade-id, and whether
\* the row holds a .status-badge), its .account-balance elements
\* (data-account-id, data-account-type), whether the copier and the API
\* status and description elements exist, whether a .container exists,
\* whether the page opens the live channel, and whether the host has
\* WebSocket.  "" is an attribute that is not set.
Row(id, hasBadge) == [tradeId |-> id, badge |-> hasBadge]
Bal(id, type) == [accountId |-> id, accountType |-> type]

ItemsPage ==
    [pathname |-> "/", rows |-> <<Row("T1", TRUE), Row("", TRUE)>>,
     bals |-> <<Bal("7", "master"), Bal("8", "")>>,
     copierStatus |-> FALSE, copierDesc |-> TRUE,
     apiStatus |-> TRUE, apiDesc |-> FALSE,
     container |-> FALSE, live |-> FALSE, webSocket |-> TRUE]

StatusPage ==
    [pathname |-> "/", rows |-> <<>>, bals |-> <<>>,
     copierStatus |-> TRUE, copierDesc |-> TRUE,
     apiStatus |-> TRUE, apiDesc |-> TRUE,
     container |-> FALSE, live |-> TRUE, webSocket |-> FALSE]

LivePage ==
    [pathname |-> "/trades", rows |-> <<>>, bals |-> <<>>,
     copierStatus |-> FALSE, copierDesc |-> FALSE,
     apiStatus |-> FALSE, apiDesc |-> FALSE,
     container |-> TRUE, live |-> TRUE, webSocket |-> TRUE]

Doms == {ItemsPage, StatusPage, LivePage}

Rows == 1..Len(dom.rows)
Bals == 1..Len(dom.bals)

\* the text the server rendered into the sinks
InitBadge == [text |-> <<"p", "e", "n", "d", "i", "n", "g">>,
              className |-> <<"badge status-badge bg-", "warning">>]
InitBalance == <<"$", 100, 0>>
InitDisplay == [text |-> "Checking...", className |-> <<"badge bg-", "secondary", " me-2">>,
               desc |-> "Loading"]

-----------------------------------------------------------------------------
(* The responses of the polled endpoints *)

\* fetch(...).then(response => response.json()): the request is rejected, the
\* body is not JSON, the body is the JSON null (reading a field of it
\* throws), or the body is an object
FetchFailures == {"reject", "nonjson", "null"}

Executed == <<"e", "x", "e", "c", "u", "t", "e", "d">>
MixedPending == <<"P", "e", "n", "d", "i", "n", "g">>
Unknown == <<"o", "p", "e", "n">>

JsBools == {"true", "false", "undefined"}

TradeData ==
    [success : JsBools,
     status : {Str(Executed), Str(MixedPending), Str(Unknown), Num(<<"5">>), Undefined}]

\* a balance is a number of thousandths
BalanceData ==
    [success : JsBools,
     balance : {[type |-> "number", val |-> <<12346>>],
                [type |-> "number", val |-> <<250000>>], Undefined}]

CopierData == [running : JsBools, success : JsBools]

Categories == {"all_connected", "partial_connected", "none_connected", "no_accounts",
               "error"}

ApiData ==
    [status : {Str(c) : c \in Categories} \cup {Str("degraded"), Undefined},
     message : {Str("2 of 3 accounts connected"), Str("All good"), Undefined}]

Responses(data) ==
    {[outcome |-> "object", data |-> d] : d \in data}
        \cup {[outcome |-> o, data |-> CHOOSE d \in data : TRUE] : o \in FetchFailures}

-----------------------------------------------------------------------------
(* The refreshers' completion callbacks *)

\* the badge written without looking at data.success
updateTradeStatusThen_unchecked(badge, hasBadge, data) ==
    IF hasBadge /\ data.status.type = "string"
    THEN [text |-> TextContent(data.status, <<>>),
          className |-> <<"badge status-badge bg-", getStatusClass(data.status.val)>>]
    ELSE badge

\* updateTradeStatus, the second then: the new badge of a row
updateTradeStatusThen(badge, hasBadge, data) ==
    IF Truthy(data.success) /\ hasBadge
    THEN IF data.status.type = "string"
         THEN [text |-> TextContent(data.status, <<>>),
               className |-> <<"badge status-badge bg-", getStatusClass(data.status.val)>>]
         \* getStatusClass throws on a status without toLowerCase, after the
         \* text was written; the catch logs it
         ELSE [badge EXCEPT !.text = TextContent(data.status, <<>>)]
    ELSE badge

updateTradeStatusDone(badge, hasBadge, resp) ==
    IF resp.outcome = "object" THEN updateTradeStatusThen(badge, hasBadge, resp.data)
    ELSE badge

\* overtaken: a request sent later has completed before this one
TradeResult(hasBadge, resp, overtaken) ==
    CASE resp.outcome # "object" -> "failed"
      [] ~Truthy(resp.data.success) -> "failed"
      [] ~hasBadge -> "nobadge"
      [] resp.data.status.type # "string" -> "threw"
      [] overtaken -> "applied late"
      [] OTHER -> "applied"

\* Number.prototype.toFixed(2) of a number of thousandths: dollars and cents
toFixed2(mills) ==
    LET cents == (mills + 5) \div 10 IN <<cents \div 100, cents % 100>>

\* updateAccountBalances, the second then: the new text of a balance element
updateAccountBalancesThen(text, data) ==
    IF Truthy(data.success)
    THEN IF data.balance.type = "number"
         THEN <<"$">> \o toFixed2(data.balance.val[1])
         \* undefined has no toFixed: the then throws, the catch logs it
         ELSE text
    ELSE text

updateAccountBalancesDone(text, resp) ==
    IF resp.outcome = "object" THEN updateAccountBalancesThen(text, resp.data) ELSE text

BalanceResult(resp) ==
    CASE resp.outcome # "object" -> "failed"
      [] ~Truthy(resp.data.success) -> "failed"
      [] resp.data.balance.type # "number" -> "threw"
      [] OTHER -> "applied"

Display(text, severity, desc) ==
    [text |-> text, className |-> <<"badge bg-", severity, " me-2">>, desc |-> desc]

\* updateCopierStatus, the second then
updateCopierStatusThen(cur, page, data) ==
    IF page.copierStatus /\ page.copierDesc
    THEN IF Truthy(data.running)
         THEN Display("Running", "success", "Monitoring master accounts for new trades")
         ELSE Display("Stopped", "danger", "Trade copying service is not running")
    ELSE cur

\* a failed request shown like a stopped service
updateCopierStatusCatch_stopped(cur, page) ==
    IF page.copierStatus /\ page.copierDesc
    THEN Display("Stopped", "danger", "Trade copying service is not running")
    ELSE cur

\* updateCopierStatus, the catch
updateCopierStatusCatch(cur, page) ==
    IF page.copierStatus /\ page.copierDesc
    THEN Display("Error", "warning", "Unable to check service status")
    ELSE cur

updateCopierStatusDone(cur, page, resp) ==
    IF resp.outcome = "object" THEN updateCopierStatusThen(cur, page, resp.data)
    ELSE updateCopierStatusCatch(cur, page)

CopierResult(resp) ==
    CASE resp.outcome # "object" -> "caught"
      [] OTHER -> "applied"

\* the switch without its no_accounts case
updateApiStatusThen_fewer(cur, page, data) ==
    IF page.apiStatus /\ page.apiDesc
    THEN CASE data.status = Str("all_connected") ->
                Display("Connected", "success", TextContent(data.message, ""))
           [] data.status = Str("partial_connected") ->
                Display("Partial", "warning", TextContent(data.message, ""))
           [] data.status = Str("none_connected") ->
                Display("Disconnected", "danger", TextContent(data.message, ""))
           [] data.status = Str("error") ->
                Display("Error", "warning", "Unable to check API connections")
           [] OTHER -> cur
    ELSE cur

\* the switch with a fixed description for partial_connected
updateApiStatusThen_fixed(cur, page, data) ==
    IF page.apiStatus /\ page.apiDesc
    THEN CASE data.status = Str("all_connected") ->
                Display("Connected", "success", TextContent(data.message, ""))
           [] data.status = Str("partial_connected") ->
                Display("Partial", "warning", "Some API connections are down")
           [] data.status = Str("none_connected") ->
                Display("Disconnected", "danger", TextContent(data.message, ""))
           [] data.status = Str("no_accounts") ->
                Display("No Accounts", "secondary", TextContent(data.message, ""))
           [] data.status = Str("error") ->
                Display("Error", "warning", "Unable to check API connections")
           [] OTHER -> cur
    ELSE cur

\* the switch with a default case that shows the error
updateApiStatusThen_default(cur, page, data) ==
    IF page.apiStatus /\ page.apiDesc
    THEN CASE data.status = Str("all_connected") ->
                Display("Connected", "success", TextContent(data.message, ""))
           [] data.status = Str("partial_connected") ->
                Display("Partial", "warning", TextContent(data.message, ""))
           [] data.status = Str("none_connected") ->
                Display("Disconnected", "danger", TextContent(data.message, ""))
           [] data.status = Str("no_accounts") ->
                Display("No Accounts", "secondary", TextContent(data.message, ""))
           [] OTHER -> Display("Error", "warning", "Unable to check API connections")
    ELSE cur

\* updateApiStatus, the second then
updateApiStatusThen(cur, page, data) ==
    IF page.apiStatus /\ page.apiDesc
    THEN CASE data.status = Str("all_connected") ->
                Display("Connected", "success", TextContent(data.message, ""))
           [] data.status = Str("partial_connected") ->
                Display("Partial", "warning", TextContent(data.message, ""))
           [] data.status = Str("none_connected") ->
                Display("Disconnected", "danger", TextContent(data.message, ""))
           [] data.status = Str("no_accounts") ->
                Display("No Accounts", "secondary", TextContent(data.message, ""))
           [] data.status = Str("error") ->
                Display("Error", "warning", "Unable to check API connections")
           [] OTHER -> cur
    ELSE cur

\* updateApiStatus, the catch
updateApiStatusCatch(cur, page) ==
    IF page.apiStatus /\ page.apiDesc
    THEN Display("Error", "warning", "Unable to check API connections")
    ELSE cur

updateApiStatusDone(cur, page, resp) ==
    IF resp.outcome = "object" THEN updateApiStatusThen(cur, page, resp.data)
    ELSE updateApiStatusCatch(cur, page)

ApiResult(resp) ==
    CASE resp.outcome # "object" -> "caught"
      [] resp.data.status.type = "undefined" -> "unrecognized"
      [] resp.data.status.val \notin Categories -> "unrecognized"
      [] OTHER -> "recognized"

-----------------------------------------------------------------------------
(* The live channel's messages and the notifications *)

\* event.data: text that is not JSON, the JSON null, or an object with a type
\* and the payload fields the templates read
LiveTypes == {"new_trade", "trade_copied", "trade_failed"}

Messages ==
    {[raw |-> "invalid", type |-> "undefined"], [raw |-> "null", type |-> "undefined"]}
        \cup {[raw |-> "object", type |-> t] : t \in LiveTypes \cup {"heartbeat", "undefined"}}

\* showAlert's element: its className, its text and its own timer
Alert(type, message) ==
    [className |-> <<"alert alert-", IF type = "error" THEN "danger" ELSE type,
                     " alert-dismissible fade show">>,
     message |-> message, timer |-> AlertDelay, inDom |-> TRUE]

\* an alert that replaces the one on display
showAlert_replace(as, page, type, message) ==
    IF page.container THEN <<Alert(type, message)>> ELSE as

\* showAlert: the alerts afterwards; without a .container insertBefore throws
\* on null, before the element is inserted and before its timer is set
showAlert(as, page, type, message) ==
    IF page.container THEN <<Alert(type, message)>> \o as ELSE as

\* the switch with a default case that alerts the user
handleWebSocketMessage_default(as, page, msg) ==
    CASE msg.type = "new_trade" ->
            showAlert(as, page, "info", <<"New trade detected: ", "BTCUSDT", " ", "buy">>)
      [] msg.type = "trade_copied" ->
            showAlert(as, page, "success", <<"Trade copied to ", "3", " followers">>)
      [] msg.type = "trade_failed" ->
            showAlert(as, page, "error", <<"Trade copy failed: ", "timeout">>)
      [] OTHER -> showAlert(as, page, "warning", <<"Unknown message type: ", msg.type>>)

\* handleWebSocketMessage on a parsed object
handleWebSocketMessage(as, page, msg) ==
    CASE msg.type = "new_trade" ->
            showAlert(as, page, "info", <<"New trade detected: ", "BTCUSDT", " ", "buy">>)
      [] msg.type = "trade_copied" ->
            showAlert(as, page, "success", <<"Trade copied to ", "3", " followers">>)
      [] msg.type = "trade_failed" ->
            showAlert(as, page, "error", <<"Trade copy failed: ", "timeout">>)
      [] OTHER -> as

\* ws.onmessage: JSON.parse throws on text that is not JSON, and reading
\* data.type throws on null; both leave the handler before any alert
onmessage(as, page, msg) ==
    IF msg.raw = "object" THEN handleWebSocketMessage(as, page, msg) ELSE as

MessageResult(page, msg) ==
    CASE msg.raw # "object" -> "threw"
      [] msg.type \notin LiveTypes -> "unknown"
      [] ~page.container -> "threw"
      [] OTHER -> "shown"

\* a socket taken to be open as soon as it is created
initWebSocket_open(cur, page) == IF page.webSocket THEN "Open" ELSE "None"

\* initWebSocket: the channel's state after the call; a host without WebSocket
\* gets no socket
initWebSocket(cur, page) == IF page.webSocket THEN "Connecting" ELSE "None"

\* a close handler that gives up
onclose_giveup(timers) == timers

\* a close handler that schedules the reconnection twice
onclose_twice(timers) == Append(Append(timers, ReconnectDelay), ReconnectDelay)

\* ws.onclose: the pending reconnection timers afterwards
onclose(timers) == Append(timers, ReconnectDelay)

\* an error handler that schedules a reconnection of its own
onerror_reconnect(timers) == Append(timers, ReconnectDelay)

\* ws.onerror: the pending reconnection timers afterwards
onerror(timers) == timers

-----------------------------------------------------------------------------
(* Timers *)

Elapse(t) == IF t > 0 THEN Max(0, t - Quantum) ELSE t

RemoveAt(s, i) == SubSeq(s, 1, i - 1) \o SubSeq(s, i + 1, Len(s))

\* an interval of half the period
startRealTimeUpdates_fast(timers) == Append(timers, PollPeriod \div 2)

\* startRealTimeUpdates: the interval timers afterwards
startRealTimeUpdates(timers) == Append(timers, PollPeriod)

\* a fetch that aborts the ones sent before it
fetch_abort(pending) == <<FALSE>>

\* fetch: the requests in flight for a target afterwards; nothing sent
\* before is aborted
fetch(pending) == Append(pending, FALSE)

\* a response arrives for the i-th request in flight: the others stay, the
\* ones sent before it are overtaken
Settle(pending, i) ==
    RemoveAt([j \in DOMAIN pending |-> IF j < i THEN TRUE ELSE pending[j]], i)

\* every row, with a trade id or without
TradeTargets_all(page) == 1..Len(page.rows)

\* the rows and balance elements a pass sends a request for
TradeTargets(page) == {r \in 1..Len(page.rows) : page.rows[r].tradeId # ""}
BalanceTargets(page) ==
    {b \in 1..Len(page.bals) : page.bals[b].accountId # "" /\ page.bals[b].accountType # ""}

Done(op, result) == [op |-> op, result |-> result]

-----------------------------------------------------------------------------
\* the page as it is served
Served ==
    /\ dom \in Doms
    /\ loaded = FALSE
    /\ pageTimer = -1
    /\ intervals = <<>>
    /\ pendTrade = [r \in Rows |-> <<>>]
    /\ pendBalance = [b \in Bals |-> 0]
    /\ pendCopier = 0
    /\ pendApi = 0
    /\ badges = [r \in Rows |-> InitBadge]
    /\ balances = [b \in Bals |-> InitBalance]
    /\ copier = InitDisplay
    /\ api = InitDisplay
    /\ ws = "Idle"
    /\ reconnects = <<>>
    /\ closedFor = 0
    /\ alerts = <<>>
    /\ last = Done("none", "none")

Init ==
    /\ Served
    /\ statusArg = <<>>
    /\ statusClass = "none"

\* the body of startRealTimeUpdates: arm the interval, then refresh the two
\* singletons at once
Start ==
    /\ Len(intervals) < MaxStarts
    /\ pendCopier < MaxInflight
    /\ pendApi < MaxInflight
    /\ intervals' = startRealTimeUpdates(intervals)
    /\ pendCopier' = pendCopier + 1
    /\ pendApi' = pendApi + 1

\* the DOMContentLoaded listener
DOMContentLoaded ==
    /\ ~loaded
    /\ loaded' = TRUE
    /\ pageTimer' = PageAlertDelay
    /\ IF dom.pathname = "/" THEN Start
       ELSE UNCHANGED <<intervals, pendCopier, pendApi>>
    /\ UNCHANGED <<dom, callVars, pendTrade, pendBalance, badges, balances, copier, api, chanVars,
                   last>>

\* a call of startRealTimeUpdates by the page
StartRealTimeUpdates ==
    /\ loaded
    /\ Start
    /\ UNCHANGED <<last, dom, callVars, loaded, pageTimer, pendTrade, pendBalance, badges,
                   balances, copier, api, chanVars>>

\* the interval's callback: one pass of the four refreshers
PollFire(i) ==
    /\ intervals[i] = 0
    /\ \A r \in TradeTargets(dom) : Len(pendTrade[r]) < MaxInflightTrade
    /\ \A b \in BalanceTargets(dom) : pendBalance[b] < MaxInflight
    /\ pendCopier < MaxInflight
    /\ pendApi < MaxInflight
    /\ intervals' = Append(RemoveAt(intervals, i), PollPeriod)
    /\ pendTrade' = [r \in Rows |-> IF r \in TradeTargets(dom) THEN fetch(pendTrade[r])
                                    ELSE pendTrade[r]]
    /\ pendBalance' = [b \in Bals |-> IF b \in BalanceTargets(dom) THEN pendBalance[b] + 1
                                      ELSE pendBalance[b]]
    /\ pendCopier' = pendCopier + 1
    /\ pendApi' = pendApi + 1
    /\ UNCHANGED <<last, dom, callVars, loaded, pageTimer, badges, balances, copier, api, chanVars>>

\* the i-th trade status request in flight for row r completes with resp
CompleteTradeWith(r, i, resp) ==
    /\ i \in DOMAIN pendTrade[r]
    /\ pendTrade' = [pendTrade EXCEPT ![r] = Settle(@, i)]
    /\ badges' = [badges EXCEPT ![r] = updateTradeStatusDone(@, dom.rows[r].badge, resp)]
    /\ last' = Done("trade", TradeResult(dom.rows[r].badge, resp, pendTrade[r][i]))
    /\ UNCHANGED <<dom, callVars, loaded, pageTimer, intervals, pendBalance, pendCopier, pendApi,
                   balances, copier, api, chanVars>>

CompleteTrade ==
    \E r \in Rows : \E i \in 1..MaxInflightTrade : \E resp \in Responses(TradeData) :
        CompleteTradeWith(r, i, resp)

\* an account balance request completes with resp
CompleteBalanceWith(b, resp) ==
    /\ pendBalance[b] > 0
    /\ pendBalance' = [pendBalance EXCEPT ![b] = @ - 1]
    /\ balances' = [balances EXCEPT ![b] = updateAccountBalancesDone(@, resp)]
    /\ last' = Done("balance", BalanceResult(resp))
    /\ UNCHANGED <<dom, callVars, loaded, pageTimer, intervals, pendTrade, pendCopier, pendApi,
                   badges, copier, api, chanVars>>

CompleteBalance ==
    \E b \in Bals : \E resp \in Responses(BalanceData) : CompleteBalanceWith(b, resp)

\* a copier status request completes with resp
CompleteCopierWith(resp) ==
    /\ pendCopier > 0
    /\ pendCopier' = pendCopier - 1
    /\ copier' = updateCopierStatusDone(copier, dom, resp)
    /\ last' = Done("copier", CopierResult(resp))
    /\ UNCHANGED <<dom, callVars, loaded, pageTimer, intervals, pendTrade, pendBalance, pendApi,
                   badges, balances, api, chanVars>>

CompleteCopier == \E resp \in Responses(CopierData) : CompleteCopierWith(resp)

\* a connections status request completes with resp
CompleteApiWith(resp) ==
    /\ pendApi > 0
    /\ pendApi' = pendApi - 1
    /\ api' = updateApiStatusDone(api, dom, resp)
    /\ last' = Done("api", ApiResult(resp))
    /\ UNCHANGED <<dom, callVars, loaded, pageTimer, intervals, pendTrade, pendBalance, pendCopier,
                   badges, balances, copier, chanVars>>

CompleteApi == \E resp \in Responses(ApiData) : CompleteApiWith(resp)

-----------------------------------------------------------------------------
(* The live channel *)

\* the page opens the channel: one call of initWebSocket
InitWebSocket ==
    /\ loaded
    /\ dom.live
    /\ ws = "Idle"
    /\ ws' = initWebSocket(ws, dom)
    /\ UNCHANGED <<last, dom, callVars, loaded, pageTimer, pollVars, reconnects, closedFor, alerts>>

\* ws.onopen
OnOpen ==
    /\ ws = "Connecting"
    /\ ws' = "Open"
    /\ UNCHANGED <<last, dom, callVars, loaded, pageTimer, pollVars, reconnects, closedFor, alerts>>

\* ws.onmessage
OnMessage(msg) ==
    /\ ws = "Open"
    /\ MessageResult(dom, msg) = "shown" => Len(alerts) < MaxAlerts
    /\ alerts' = onmessage(alerts, dom, msg)
    /\ last' = Done("onmessage", MessageResult(dom, msg))
    /\ UNCHANGED <<dom, callVars, loaded, pageTimer, pollVars, ws, reconnects, closedFor>>

\* ws.onerror: the host reports an error of a socket that is not closed yet
OnError ==
    /\ ws \in {"Connecting", "Open"}
    /\ reconnects' = onerror(reconnects)
    /\ last' = Done("onerror", "logged")
    /\ UNCHANGED <<dom, callVars, loaded, pageTimer, pollVars, ws, closedFor, alerts>>

\* ws.onclose: the host closes the socket, after a failed handshake or after
\* the connection was open
OnClose ==
    /\ ws \in {"Connecting", "Open"}
    /\ ws' = "Closed"
    /\ closedFor' = 0
    /\ reconnects' = onclose(reconnects)
    /\ UNCHANGED <<last, dom, callVars, loaded, pageTimer, pollVars, alerts>>

\* a reconnection timer's callback: initWebSocket
ReconnectFire(i) ==
    /\ reconnects[i] = 0
    /\ reconnects' = RemoveAt(reconnects, i)
    /\ ws' = initWebSocket(ws, dom)
    /\ UNCHANGED <<last, dom, callVars, loaded, pageTimer, pollVars, closedFor, alerts>>

-----------------------------------------------------------------------------
(* The notifications *)

\* bootstrap.Alert.close() of every element of els
CloseAll(as, els) ==
    [i \in DOMAIN as |-> IF i \in els THEN [as[i] EXCEPT !.inDom = FALSE] ELSE as[i]]

\* an alert that left the page is forgotten: its timer, if it is still to run,
\* closes an element that is closed already
Forget(as) == SelectSeq(as, LAMBDA a : a.inDom)

\* an alert's own timer: close it
AlertTimerFire(i) ==
    /\ alerts[i].timer = 0
    /\ alerts' = Forget([CloseAll(alerts, {i}) EXCEPT ![i].timer = -1])
    /\ UNCHANGED <<last, dom, callVars, loaded, pageTimer, pollVars, ws, reconnects, closedFor>>

\* the user clicks an alert's close button
UserDismiss(i) ==
    /\ alerts[i].inDom
    /\ alerts' = Forget(CloseAll(alerts, {i}))
    /\ UNCHANGED <<last, dom, callVars, loaded, pageTimer, pollVars, ws, reconnects, closedFor>>

\* the DOMContentLoaded listener's timer: close every .alert of the page
PageTimerFire ==
    /\ pageTimer = 0
    /\ pageTimer' = -1
    /\ alerts' = Forget(CloseAll(alerts, {i \in DOMAIN alerts : alerts[i].inDom}))
    /\ UNCHANGED <<last, dom, callVars, loaded, pollVars, ws, reconnects, closedFor>>

-----------------------------------------------------------------------------
\* time passes: every timer comes closer to being due
Advance ==
    /\ loaded
    /\ pageTimer' = Elapse(pageTimer)
    /\ intervals' = [i \in DOMAIN intervals |-> Elapse(intervals[i])]
    /\ reconnects' = [i \in DOMAIN reconnects |-> Elapse(reconnects[i])]
    /\ alerts' = [i \in DOMAIN alerts |-> [alerts[i] EXCEPT !.timer = Elapse(@)]]
    /\ closedFor' = IF ws = "Closed" THEN Min(ReconnectDelay, closedFor + Quantum)
                    ELSE closedFor
    /\ UNCHANGED <<dom, callVars, loaded, pendTrade, pendBalance, pendCopier, pendApi, badges,
                   balances, copier, api, ws, last>>

Tick == \E i \in DOMAIN intervals : PollFire(i)

Reconnect == \E i \in DOMAIN reconnects : ReconnectFire(i)

\* what every page does: load, poll, refresh the two singletons
PollNext ==
    \/ DOMContentLoaded
    \/ StartRealTimeUpdates
    \/ Tick
    \/ CompleteCopier
    \/ CompleteApi
    \/ PageTimerFire
    \/ Advance

ItemNext ==
    \/ CompleteTrade
    \/ CompleteBalance

LiveNext ==
    \/ InitWebSocket
    \/ OnOpen
    \/ \E msg \in Messages : OnMessage(msg)
    \/ OnError
    \/ OnClose
    \/ Reconnect
    \/ \E i \in DOMAIN alerts : AlertTimerFire(i)
    \/ \E i \in DOMAIN alerts : UserDismiss(i)

Next == PollNext \/ ItemNext \/ LiveNext

\* every page
Spec == Init /\ [][Next]_vars

-----------------------------------------------------------------------------
(* getStatusClass taken alone *)

\* the letter c in its two cases
Cases(c) == {c} \cup {u \in DOMAIN LowerOf : LowerOf[u] = c}

\* the word w with every letter in either case
RECURSIVE Spellings(_)
Spellings(w) ==
    IF w = <<>> THEN {<<>>}
    ELSE {<<c>> \o rest : c \in Cases(Head(w)), rest \in Spellings(Tail(w))}

Pending == <<"p", "e", "n", "d", "i", "n", "g">>
FailedToken == <<"f", "a", "i", "l", "e", "d">>
Cancelled == <<"c", "a", "n", "c", "e", "l", "l", "e", "d">>

\* the status tokens in every spelling, tokens of no category, the empty
\* token, and tokens that are a category's name with something more
Tokens ==
    Spellings(Executed) \cup Spellings(Pending) \cup Spellings(FailedToken)
        \cup Spellings(Cancelled) \cup Spellings(Unknown)
        \cup {<<>>, <<"5">>, Pending \o <<" ">>, <<"F", "A", "I", "L">>}

OnCall ==
    /\ Served
    /\ dom = StatusPage
    /\ statusArg \in Tokens
    /\ statusClass = "none"

\* one call of getStatusClass
GetStatusClass ==
    /\ statusClass = "none"
    /\ statusClass' = getStatusClass(statusArg)
    /\ statusArg' = statusArg
    /\ UNCHANGED <<dom, loaded, pageTimer, pollVars, chanVars, last>>

SpecCall == OnCall /\ [][GetStatusClass]_vars

\* the page with trade rows and balances, which opens no live channel
OnItemsPage == Init /\ dom = ItemsPage

SpecItems == OnItemsPage /\ [][PollNext \/ ItemNext]_vars

\* the page with the two status displays, on a host without WebSocket
OnStatusPage == Init /\ dom = StatusPage

SpecStatus == OnStatusPage /\ [][PollNext \/ InitWebSocket]_vars

\* the page with the live channel and the notifications
OnLivePage == Init /\ dom = LivePage

SpecLive == OnLivePage /\ [][PollNext \/ LiveNext]_vars

\* The host runs a due timer's callback, time passes, and every fetch settles:
\* the page that polls and holds the live channel, under this scheduling.
Fairness ==
    /\ WF_vars(Advance)
    /\ WF_vars(Tick)
    /\ WF_vars(Reconnect)
    /\ WF_vars(CompleteTrade)
    /\ WF_vars(CompleteBalance)
    /\ WF_vars(CompleteCopier)
    /\ WF_vars(CompleteApi)

FairSpec == SpecLive /\ Fairness

-----------------------------------------------------------------------------
(* The claims *)

Severity(className) == className[2]

ErrorDisplayed(d) == d.text = "Error" /\ Severity(d.className) = "warning"

\* the responses a per-item refresher takes for a failure
Failed(data) ==
    {resp \in Responses(data) : resp.outcome # "object" \/ ~Truthy(resp.data.success)}

\* C1: after any number of calls of startRealTimeUpdates at most one
\* repeating poll timer is armed.
C1_AtMostOneTimer == Len(intervals) <= 1

\* C2: at most one reconnection timer is pending at any time, exactly one
\* while the channel is closed, and the reconnection's connect attempt comes
\* no earlier than ReconnectDelay after the close.
C2_OneReconnection ==
    /\ [](Len(reconnects) <= 1 /\ (ws = "Closed" <=> Len(reconnects) = 1))
    /\ [][Reconnect => closedFor >= ReconnectDelay /\ ws' = "Connecting"]_vars

\* the channel was closed, waited out the delay and is connecting again
C2_Witness == ws = "Connecting" /\ closedFor >= ReconnectDelay /\ reconnects = <<>>

\* C3: a trade status or balance refresh that fails (rejected, not JSON,
\* null, or success false or absent) leaves every badge and every balance
\* text as it was: a step that changes one of them is no failed refresh.
C3_FailedRefreshKeepsView ==
    [][\/ badges' = badges /\ balances' = balances
       \/ /\ \A r \in Rows : \A i \in 1..MaxInflightTrade :
                \A resp \in Failed(TradeData) : ~CompleteTradeWith(r, i, resp)
          /\ \A b \in Bals : \A resp \in Failed(BalanceData) : ~CompleteBalanceWith(b, resp)]_vars

\* a refresh failed after an earlier one had written the badge
C3_Witness ==
    /\ last = Done("trade", "failed")
    /\ \E r \in Rows : badges[r].text = Executed /\ Severity(badges[r].className) = "success"

\* C4: once started the poll timer fires again and again, and every close of
\* the channel is followed by a new connect attempt, whatever the refreshers
\* and the message handler ran into.
C4_KeepsTrying ==
    /\ [](intervals = <<>>) \/ []<><<Tick>>_vars
    /\ (ws = "Closed") ~> (ws = "Connecting")

\* polling runs and the channel is closed, after a handler threw
C4_Witness ==
    /\ intervals # <<>>
    /\ ws = "Closed"
    /\ last = Done("onmessage", "threw")

\* the responses C5 takes for a failure of a singleton request
CopierFailed ==
    {resp \in Responses(CopierData) :
        \/ resp.outcome # "object"
        \/ resp.data.success = "false"
        \/ resp.data.running = "undefined"}

ApiFailed ==
    {resp \in Responses(ApiData) :
        resp.outcome # "object" \/ resp.data.status.type = "undefined"}

\* C5: every failure of a copier or connections status request (rejected, not
\* JSON, success false, or the expected field absent) shows "Error" with
\* warning severity.
C5_SingletonFailureShowsError ==
    [][/\ \A resp \in CopierFailed : CompleteCopierWith(resp) => ErrorDisplayed(copier')
       /\ \A resp \in ApiFailed : CompleteApiWith(resp) => ErrorDisplayed(api')]_vars

\* C6: running true shows Running with success severity, running false shows
\* Stopped with danger severity, a failed request shows Error with warning
\* severity.
C6_CopierDisplay ==
    [][\A resp \in Responses(CopierData) :
          CompleteCopierWith(resp) =>
            /\ resp.outcome = "object" /\ resp.data.running = "true" =>
                  copier'.text = "Running" /\ Severity(copier'.className) = "success"
            /\ resp.outcome = "object" /\ resp.data.running = "false" =>
                  copier'.text = "Stopped" /\ Severity(copier'.className) = "danger"
            /\ resp.outcome # "object" =>
                  /\ ErrorDisplayed(copier')
                  /\ copier'.text \notin {"Running", "Stopped"}
                  /\ Severity(copier'.className) \notin {"success", "danger"}]_vars

\* a copier status request failed and the display says so
C6_Witness == last = Done("copier", "caught") /\ ErrorDisplayed(copier)

\* the display table of the connections status
DisplayTable ==
    [c \in Categories |->
        CASE c = "all_connected" -> <<"Connected", "success">>
          [] c = "partial_connected" -> <<"Partial", "warning">>
          [] c = "none_connected" -> <<"Disconnected", "danger">>
          [] c = "no_accounts" -> <<"No Accounts", "secondary">>
          [] c = "error" -> <<"Error", "warning">>]

Recognized == {resp \in Responses(ApiData) :
                  resp.outcome = "object" /\ resp.data.status \in {Str(c) : c \in Categories}}

\* C7: every ConnectionCategory the endpoint returns gets the label and the
\* severity of the display table.
C7_DisplayTable ==
    [][\A resp \in Recognized :
          CompleteApiWith(resp) =>
              <<api'.text, Severity(api'.className)>> = DisplayTable[resp.data.status.val]]_vars

\* the no_accounts category is on display
C7_Witness ==
    /\ last = Done("api", "recognized")
    /\ api.text = "No Accounts"
    /\ Severity(api.className) = "secondary"

\* C8 as stated: the description is the response's message for all five
\* categories.
C8_MessageVerbatim ==
    [][\A resp \in Recognized :
          CompleteApiWith(resp) /\ resp.data.message.type = "string" =>
              api'.desc = resp.data.message.val]_vars

\* C8 as amended: the description is the response's message (the empty text
\* for a response without one) for the four categories other than error, and
\* the fixed text for error.
C8_MessageVerbatimButError ==
    [][\A resp \in Recognized :
          CompleteApiWith(resp) =>
              api'.desc = IF resp.data.status = Str("error")
                          THEN "Unable to check API connections"
                          ELSE TextContent(resp.data.message, "")]_vars

\* the message of a partial_connected response is on display
C8_Witness ==
    /\ last = Done("api", "recognized")
    /\ api.text = "Partial"
    /\ api.desc = "2 of 3 accounts connected"

\* C9: a response whose status is none of the five categories leaves the
\* label, the severity and the description as they were, and the handler
\* does not throw.
C9_UnrecognizedIsNoOp ==
    [][\A resp \in Responses(ApiData) :
          CompleteApiWith(resp) /\ resp.outcome = "object"
              /\ resp.data.status \notin {Str(c) : c \in Categories} =>
                  api' = api /\ last'.result = "unrecognized"]_vars

\* an unrecognized category came after a recognized one, which stays
C9_Witness == last = Done("api", "unrecognized") /\ api.text = "Partial"

Channel == {"Connecting", "Open", "Closed"}

\* C10 as stated: the channel changes only from Connecting to Open, from Open
\* to Closed and from Closed to Connecting.
C10_ThreeTransitions ==
    [][(ws \in Channel /\ ws' # ws) =>
          <<ws, ws'>> \in {<<"Connecting", "Open">>, <<"Open", "Closed">>,
                           <<"Closed", "Connecting">>}]_vars

\* C10 as amended: a socket that fails its handshake also goes from
\* Connecting to Closed; Open is reached from Connecting only.
C10_FourTransitions ==
    [][(ws \in Channel /\ ws' # ws) =>
          <<ws, ws'>> \in {<<"Connecting", "Open">>, <<"Connecting", "Closed">>,
                           <<"Open", "Closed">>, <<"Closed", "Connecting">>}]_vars

\* the channel is open again after a close and a reconnection
C10_Witness == ws = "Open" /\ closedFor >= ReconnectDelay

\* C11: an error event of the channel only logs: it changes neither the
\* channel's state nor the pending reconnections; a reconnection timer is
\* created by the close handler alone, one for each close, so an error and
\* the close that follows it leave one pending reconnection.
C11_ErrorOnlyLogs ==
    /\ [][OnError => ws' = ws /\ reconnects' = reconnects /\ alerts' = alerts]_vars
    /\ [][Len(reconnects') > Len(reconnects) =>
            OnClose /\ reconnects = <<>> /\ reconnects' = <<ReconnectDelay>>]_vars

\* an error was logged, its close followed: one reconnection is pending
C11_Witness ==
    /\ last = Done("onerror", "logged")
    /\ ws = "Closed"
    /\ reconnects = <<ReconnectDelay>>

\* the messages handleWebSocketMessage gets with a type it does not know
UnknownMessages == {msg \in Messages : msg.raw = "object" /\ msg.type \notin LiveTypes}

\* C12: a message of an unknown type is dropped: the handler does not throw,
\* the notification area stays as it was, and the channel stays open for the
\* messages that follow.
C12_UnknownTypeDropped ==
    [][\A msg \in UnknownMessages :
          OnMessage(msg) =>
              /\ alerts' = alerts
              /\ last'.result = "unknown"
              /\ ws' = "Open"]_vars

\* an unknown message came while a notification was on display, which stays
C12_Witness ==
    /\ last = Done("onmessage", "unknown")
    /\ ws = "Open"
    /\ Len(alerts) = 1 /\ alerts[1].inDom

\* the alerts on the page
Present(as) == SelectSeq(as, LAMBDA a : a.inDom)

\* the severity of the alert of each message type
AlertSeverity ==
    [t \in LiveTypes |->
        CASE t = "new_trade" -> "info"
          [] t = "trade_copied" -> "success"
          [] t = "trade_failed" -> "danger"]

\* C13: every message of a recognized type adds one alert, of the severity of
\* its type, on top of the alerts that are on the page, which all stay: k
\* messages with no dismissal in between leave k alerts, identical or not.
C13_OneAlertEach ==
    [][\A msg \in Messages :
          (msg.raw = "object" /\ msg.type \in LiveTypes /\ OnMessage(msg)) =>
              /\ Len(Present(alerts')) = Len(Present(alerts)) + 1
              /\ Tail(alerts') = alerts
              /\ alerts'[1].className[2] = AlertSeverity[msg.type]
              /\ alerts'[1].inDom
              /\ last'.result = "shown"]_vars

\* two identical messages left two alerts
C13_Witness ==
    /\ last = Done("onmessage", "shown")
    /\ Len(Present(alerts)) = 2
    /\ alerts[1].message = alerts[2].message
    /\ alerts[1].className = alerts[2].className

\* the messages that do not parse to an object
Unparsed == {msg \in Messages : msg.raw # "object"}

\* C14: a message that does not parse as a LiveEvent raises no error out of
\* the message handler, creates no alert, and leaves the channel open.
C14_ParseFailureHandled ==
    [][\A msg \in Unparsed :
          OnMessage(msg) =>
              /\ last'.result # "threw"
              /\ alerts' = alerts
              /\ ws' = "Open"]_vars

\* the requests in flight for trade rows and balance elements
PerItemInFlight ==
    <<[r \in Rows |-> Len(pendTrade[r])], pendBalance>>

\* C15: a call of startRealTimeUpdates arms a timer of period PollPeriod and
\* sends one request for the copier status and one for the connections
\* status, and none for a trade or a balance: those are sent by a tick,
\* never before.
C15_ImmediateSingletons ==
    /\ [][Len(intervals') > Len(intervals) =>
            /\ intervals' = Append(intervals, PollPeriod)
            /\ pendCopier' = pendCopier + 1
            /\ pendApi' = pendApi + 1
            /\ PerItemInFlight' = PerItemInFlight]_vars
    /\ [][(\/ \E r \in Rows : Len(pendTrade'[r]) > Len(pendTrade[r])
           \/ \E b \in Bals : pendBalance'[b] > pendBalance[b]) => Tick]_vars

\* the dashboard just loaded: the timer is armed with the full period ahead,
\* the two singleton requests are in flight, no per-item request is
C15_Witness ==
    /\ loaded
    /\ TradeTargets(dom) # {} /\ BalanceTargets(dom) # {}
    /\ intervals = <<PollPeriod>>
    /\ pendCopier = 1 /\ pendApi = 1
    /\ \A r \in Rows : pendTrade[r] = <<>>
    /\ \A b \in Bals : pendBalance[b] = 0

Applied == {resp \in Responses(TradeData) :
               /\ resp.outcome = "object"
               /\ Truthy(resp.data.success)
               /\ resp.data.status.type = "string"}

\* C18: a request in flight is never cancelled: a tick leaves the requests
\* sent before it in flight, a request leaves only when its response
\* arrives, and every successful response is applied when it arrives,
\* overtaken by a later request or not, so that the badge shows the response
\* that arrived last.
C18_LastCompletedWins ==
    /\ [][\A r \in Rows :
            /\ (Tick /\ dom.rows[r].tradeId # "") =>
                  /\ Len(pendTrade'[r]) = Len(pendTrade[r]) + 1
                  /\ SubSeq(pendTrade'[r], 1, Len(pendTrade[r])) = pendTrade[r]
            /\ Len(pendTrade'[r]) < Len(pendTrade[r]) =>
                  /\ \E i \in DOMAIN pendTrade[r] : pendTrade'[r] = Settle(pendTrade[r], i)
                  /\ last'.op = "trade"]_vars
    /\ [][\/ pendTrade' = pendTrade
          \/ \A r \in {q \in Rows : dom.rows[q].badge /\ pendTrade'[q] # pendTrade[q]} :
             \A i \in DOMAIN pendTrade[r] : \A resp \in Applied :
                CompleteTradeWith(r, i, resp) =>
                    /\ badges'[r].text = resp.data.status.val
                    /\ Severity(badges'[r].className)
                          = getStatusClass(resp.data.status.val)]_vars

\* the response of a request that a later one had overtaken is on display
C18_Witness ==
    /\ last = Done("trade", "applied late")
    /\ \E r \in Rows : pendTrade[r] = <<>> /\ badges[r].text = Executed

\* the alerts of as that are no longer on the page in bs
Removed(as, bs) == Len(Present(bs)) < Len(Present(as))

\* C19: an alert of showAlert leaves the page only when the user dismisses it
\* or when its own timer fires, AlertDelay after it was inserted, and its
\* own timer removes it if the user did not.
C19_OwnTimerOrUser ==
    /\ [][Removed(alerts, alerts') =>
            \/ \E i \in DOMAIN alerts : UserDismiss(i)
            \/ \E i \in DOMAIN alerts : AlertTimerFire(i)]_vars
    /\ [][\A i \in DOMAIN alerts : AlertTimerFire(i) => Removed(alerts, alerts')]_vars

\* the class of a badge is the class of its label
Classified(badge) == Severity(badge.className) = getStatusClass(badge.text)

\* C20: a trade status refresh writes a badge's label and its class together:
\* a badge whose class is the class of its label before a response arrives
\* is so afterwards, whatever the response.
C20_LabelAndClassTogether ==
    [][\A r \in Rows : Classified(badges[r]) => Classified(badges'[r])]_vars

\* the token s is the lower-case word w in some letter case
SameWord(s, w) ==
    /\ Len(s) = Len(w)
    /\ \A i \in 1..Len(w) : s[i] \in Cases(w[i])

\* the documented category of a token
Category(s) ==
    CASE SameWord(s, Executed) -> "success"
      [] SameWord(s, Pending) -> "warning"
      [] SameWord(s, FailedToken) -> "danger"
      [] OTHER -> "secondary"

\* C17: getStatusClass gives every string token a category, the documented
\* one whatever the case of its letters (executed: success, pending:
\* warning, failed: danger, cancelled and everything else: secondary), and
\* leaves its argument as it was.
C17_ClassifyTotal ==
    /\ [](statusClass # "none" => statusClass = Category(statusArg))
    /\ [][statusArg' = statusArg]_vars

\* PENDING was classified
C17_Witness ==
    /\ statusArg = <<"P", "E", "N", "D", "I", "N", "G">>
    /\ statusClass = "warning"

====
